---- MODULE Spec2Model ----
(***************************************************************************)
(* 04_TuneHyperparameters.ipynb: the notebook's code cells, run top to     *)
(* bottom, against the Azure ML workspace they call (compute clusters, the *)
(* default datastore, the experiment's runs, the HyperDrive search and the *)
(* model registry).  The notebook is the program; the workspace is its     *)
(* environment, whose steps (provisioning, run progress, child scheduling, *)
(* version numbering) are written from the workflow's specification.       *)
(***************************************************************************)
EXTENDS Integers, Sequences, FiniteSets, TLC

VARIABLES
    pc,             \* the cell (or the place inside the compute cell) to run next
    failedAt,       \* the cell whose call raised in this invocation, "" if none
    trace,          \* the remote calls made in this invocation, in order
    invocation,     \* number of the current run of the notebook
    cluster_name,   \* parameters cell
    num_epochs,     \* parameters cell
    max_total_runs, \* parameters cell
    found,          \* outcome of ComputeTarget(workspace=ws, name=cluster_name)
    best_run,       \* index of the child run held by best_run, 0 when unset
    clusters,       \* workspace: cluster name -> provisioning state and configuration
    datastore,      \* workspace: target paths present in the default datastore
    runState,       \* workspace: status of the single training run
    hdState,        \* workspace: status of the HyperDrive run
    hd_config,      \* workspace: the HyperDriveConfig the search was submitted with
    children,       \* workspace: the search's child runs, in start order
    registry,       \* workspace: registered models, in registration order
    createCalls,    \* history: ComputeTarget.create calls made per name
    createdOK       \* history: ComputeTarget.create calls that returned per name

locals == <<pc, failedAt, trace, invocation, cluster_name, num_epochs,
            max_total_runs, found, best_run>>
remote == <<clusters, datastore, runState, hdState, hd_config, children,
            registry, createCalls, createdOK>>
vars == <<pc, failedAt, trace, invocation, cluster_name, num_epochs,
          max_total_runs, found, best_run, clusters, datastore, runState,
          hdState, hd_config, children, registry, createCalls, createdOK>>

(***************************************************************************)
(* Bounds of the model.                                                    *)
(***************************************************************************)
MaxInvocations == 2     \* runs of the notebook in one behaviour
MaxTotalRuns == 5       \* the widest search of SpecSearch
MaxMetric == 2          \* a logged mAP@IoU=0.50 is one of 1..MaxMetric

\* max_total_runs = 1 in the parameters cell
default_max_total_runs == 1

ClusterNames == {"gpu-a", "gpu-b"}
EpochChoices == {1, 10}

\* ---------------------------------------------------------------- helpers

RECURSIVE CountOf(_, _)
CountOf(s, x) ==
    IF s = <<>> THEN 0
    ELSE (IF Head(s) = x THEN 1 ELSE 0) + CountOf(Tail(s), x)

IndexOf(s, x) == CHOOSE i \in 1..Len(s) : s[i] = x

Terminal == {"Completed", "Failed", "Canceled"}
Active == {"Queued", "Running"}

\* ------------------------------------------------- the notebook's literals

\* AmlCompute.provisioning_configuration(vm_size="STANDARD_NC6", max_nodes=8)
compute_config == [vm_size |-> "STANDARD_NC6", max_nodes |-> 8]

\* register_model(model_name="torchvision_best_model", model_path=...)
model_name == "torchvision_best_model"
model_path == "/outputs/model_latest.pth"

\* HyperDriveConfig(..., max_concurrent_runs=4)
max_concurrent_runs == 4

\* A dictionary key as written in the notebook: script_params keys carry the
\* "--" of the command line, the sampling space's keys do not.
Key(flag, name) == [flag |-> flag, name |-> name]

\* The parameter a key becomes on the training script's command line: the
\* estimator passes "--name value" as written, HyperDrive adds the "--".
ParamName(k) == k.name

\* script_params of the single training run
script_params(epochs) ==
    << [key |-> Key("--", "data_path"),            value |-> "ds.as_mount()"],
       [key |-> Key("--", "workers"),              value |-> "8"],
       [key |-> Key("--", "learning_rate"),        value |-> "0.005"],
       [key |-> Key("--", "epochs"),               value |-> ToString(epochs)],
       [key |-> Key("--", "anchor_sizes"),         value |-> "16,32,64,128,256,512"],
       [key |-> Key("--", "anchor_aspect_ratios"), value |-> "0.25,0.5,1.0,2.0"],
       [key |-> Key("--", "rpn_nms_thresh"),       value |-> "0.5"],
       [key |-> Key("--", "box_nms_thresh"),       value |-> "0.3"],
       [key |-> Key("--", "box_score_thresh"),     value |-> "0.10"] >>

\* The copy of script_params with the sampled parameters left in: the search
\* template as a copy-and-paste of the single run's would be.
search_script_params_unpruned(epochs) == script_params(epochs)

\* script_params of the search's job template
search_script_params(epochs) ==
    << [key |-> Key("--", "data_path"),        value |-> "ds.as_mount()"],
       [key |-> Key("--", "workers"),          value |-> "8"],
       [key |-> Key("--", "epochs"),           value |-> ToString(epochs)],
       [key |-> Key("--", "box_nms_thresh"),   value |-> "0.3"],
       [key |-> Key("--", "box_score_thresh"), value |-> "0.10"] >>

uniform(lo, hi) == [kind |-> "uniform", lo |-> lo, hi |-> hi, options |-> {}]
choice(options) == [kind |-> "choice", lo |-> "", hi |-> "", options |-> options]

\* RandomParameterSampling({...})
param_sampling ==
    << [key |-> Key("", "learning_rate"),  dist |-> uniform("0.0005", "0.005")],
       [key |-> Key("", "rpn_nms_thresh"), dist |-> uniform("0.3", "0.7")],
       [key |-> Key("", "anchor_sizes"),
        dist |-> choice({"16", "16,32", "16,32,64", "16,32,64,128",
                         "16,32,64,128,256", "16,32,64,128,256,512"})],
       [key |-> Key("", "anchor_aspect_ratios"),
        dist |-> choice({"0.25", "0.25,0.5", "0.25,0.5,1.0", "0.25,0.5,1.0,2.0"})] >>

\* BanditPolicy(slack_factor=0.15, evaluation_interval=2, delay_evaluation=2)
early_termination_policy ==
    [slack_factor |-> "0.15", evaluation_interval |-> 2, delay_evaluation |-> 2]

\* A search limited to max_nodes instead of max_concurrent_runs, and with the
\* run budget doubled.
hyperdrive_config_loose(epochs, total) ==
    [script_params |-> search_script_params(epochs),
     sampling |-> param_sampling,
     policy |-> early_termination_policy,
     primary_metric_name |-> "mAP@IoU=0.50",
     primary_metric_goal |-> "MAXIMIZE",
     max_total_runs |-> 2 * total,
     max_concurrent_runs |-> compute_config.max_nodes]

\* A search told to minimise its primary metric.
hyperdrive_config_minimize(epochs, total) ==
    [script_params |-> search_script_params(epochs),
     sampling |-> param_sampling,
     policy |-> early_termination_policy,
     primary_metric_name |-> "mAP@IoU=0.50",
     primary_metric_goal |-> "MINIMIZE",
     max_total_runs |-> total,
     max_concurrent_runs |-> max_concurrent_runs]

\* HyperDriveConfig(estimator, hyperparameter_sampling, policy, ...)
hyperdrive_config(epochs, total) ==
    [script_params |-> search_script_params(epochs),
     sampling |-> param_sampling,
     policy |-> early_termination_policy,
     primary_metric_name |-> "mAP@IoU=0.50",
     primary_metric_goal |-> "MAXIMIZE",
     max_total_runs |-> total,
     max_concurrent_runs |-> max_concurrent_runs]

NoConfig ==
    [script_params |-> <<>>, sampling |-> <<>>,
     policy |-> early_termination_policy,
     primary_metric_name |-> "", primary_metric_goal |-> "",
     max_total_runs |-> 0, max_concurrent_runs |-> 0]

\* The command line of one child run: the template's parameters, then one
\* sampled value per key of the search space.
ChildArguments(cfg) ==
    [i \in 1..Len(cfg.script_params) |-> ParamName(cfg.script_params[i].key)]
    \o [i \in 1..Len(cfg.sampling) |-> ParamName(cfg.sampling[i].key)]

\* ------------------------------------------------------ the order of the cells

\* The order in which the specification lists the steps: compute first.
CellsComputeFirst ==
    << "auth", "compute", "datastore", "upload_images", "upload_annotations",
       "submit_run", "monitor_run", "wait_run",
       "submit_search", "monitor_search", "wait_search",
       "best_run", "register" >>

\* The code cells that call the workspace, top to bottom.
Cells ==
    << "auth", "datastore", "upload_images", "upload_annotations", "compute",
       "submit_run", "monitor_run", "wait_run",
       "submit_search", "monitor_search", "wait_search",
       "best_run", "register" >>

\* The cell run after `cell` returns.
NextCell(cell) ==
    LET i == IndexOf(Cells, cell)
    IN  IF i = Len(Cells) THEN "done" ELSE Cells[i + 1]

\* Execution that carries on with the next cell after an error.
OnErrorContinue(cell) ==
    IF cell \in {"create", "wait_compute"} THEN NextCell("compute")
    ELSE NextCell(cell)

\* An exception no cell catches ends the execution of the notebook.
OnError(cell) == "halted"

\* wait_for_completion raises when the operation it waited for ended otherwise
\* than well: a failed provisioning, a failed or canceled run.
WaitRaises(state) == state \notin {"Succeeded", "Completed"}

Returns(cell) == pc' = NextCell(cell) /\ UNCHANGED failedAt
Raises(cell) == pc' = OnError(cell) /\ failedAt' = cell
Call(op) == trace' = Append(trace, op)

Absent == [state |-> "Absent", vm_size |-> "", max_nodes |-> 0]
\* A cluster somebody made earlier under the same name, configured otherwise.
Foreign == [state |-> "Succeeded", vm_size |-> "STANDARD_D2_V2", max_nodes |-> 2]

\* ------------------------------------------------------------ initial state

Fresh ==
    /\ pc = Cells[1]
    /\ failedAt = ""
    /\ trace = <<>>
    /\ found = "unknown"
    /\ best_run = 0
    /\ runState = "NotSubmitted"
    /\ hdState = "NotSubmitted"
    /\ hd_config = NoConfig
    /\ children = <<>>

Init ==
    /\ Fresh
    /\ invocation = 1
    /\ cluster_name \in ClusterNames
    /\ num_epochs \in EpochChoices
    /\ max_total_runs = default_max_total_runs
    /\ clusters \in [ClusterNames -> {Absent, Foreign}]
    /\ datastore = {}
    /\ registry = <<>>
    /\ createCalls = [n \in ClusterNames |-> 0]
    /\ createdOK = [n \in ClusterNames |-> 0]

\* One run of the notebook with num_epochs and max_total_runs raised, as the
\* notebook suggests "in actual application": to a search of 2 runs, and to
\* one wide enough to fill its concurrency.
InitSearch ==
    /\ Fresh
    /\ invocation = 1
    /\ cluster_name = "gpu-a"
    /\ num_epochs = 10
    /\ max_total_runs \in {2, MaxTotalRuns}
    /\ clusters = [n \in ClusterNames |-> Absent]
    /\ datastore = {}
    /\ registry = <<>>
    /\ createCalls = [n \in ClusterNames |-> 0]
    /\ createdOK = [n \in ClusterNames |-> 0]

\* ------------------------------------------------------- the notebook's cells

\* ws = Workspace.from_config(auth=get_auth(env_path)); Experiment(ws, "torchvision")
Auth ==
    /\ pc = "auth"
    /\ Call("auth")
    /\ \/ Returns("auth")
       \/ Raises("auth")
    /\ UNCHANGED <<invocation, cluster_name, num_epochs, max_total_runs, found, best_run>>
    /\ UNCHANGED remote

\* ds = ws.get_default_datastore()
GetDatastore ==
    /\ pc = "datastore"
    /\ Call("datastore")
    /\ \/ Returns("datastore")
       \/ Raises("datastore")
    /\ UNCHANGED <<invocation, cluster_name, num_epochs, max_total_runs, found, best_run>>
    /\ UNCHANGED remote

\* ds.upload(src_dir=..., target_path=target, overwrite=True)
Upload(cell, target) ==
    /\ pc = cell
    /\ Call(cell)
    /\ \/ Returns(cell) /\ datastore' = datastore \cup {target}
       \/ Raises(cell) /\ UNCHANGED datastore
    /\ UNCHANGED <<invocation, cluster_name, num_epochs, max_total_runs, found, best_run>>
    /\ UNCHANGED <<clusters, runState, hdState, hd_config, children,
                   registry, createCalls, createdOK>>

UploadImages == Upload("upload_images", "JPEGImages")

\* An upload cell that stages the images only.
UploadAnnotationsSkipped ==
    /\ pc = "upload_annotations"
    /\ Returns("upload_annotations")
    /\ UNCHANGED <<trace, invocation, cluster_name, num_epochs, max_total_runs,
                   found, best_run>>
    /\ UNCHANGED remote

UploadAnnotations == Upload("upload_annotations", "Annotations")

\* A lookup that takes every cluster for missing.
LookupFindsNothing(name) == FALSE

\* ComputeTarget(workspace=ws, name=name) returns the cluster of that name
\* and raises ComputeTargetException when the workspace has none.
LookupFinds(name) == clusters[name].state # "Absent"

\* try: compute_target = ComputeTarget(workspace=ws, name=cluster_name)
\* except ComputeTargetException: (the creation below)
Lookup ==
    /\ pc = "compute"
    /\ Call("compute")
    /\ \/ LookupFinds(cluster_name) /\ found' = "found" /\ Returns("compute")
       \/ ~LookupFinds(cluster_name) /\ found' = "missing"
          /\ pc' = "create" /\ UNCHANGED failedAt
       \/ Raises("compute") /\ UNCHANGED found
    /\ UNCHANGED <<invocation, cluster_name, num_epochs, max_total_runs, best_run>>
    /\ UNCHANGED remote

\* A creation that asks for as many nodes as the search runs children at once.
CreateRequestSmall == [state |-> "Creating", vm_size |-> "STANDARD_NC6",
                       max_nodes |-> max_concurrent_runs]

\* What ComputeTarget.create(ws, cluster_name, compute_config) asks for.
CreateRequest == [state |-> "Creating", vm_size |-> compute_config.vm_size,
                  max_nodes |-> compute_config.max_nodes]

\* compute_target = ComputeTarget.create(ws, cluster_name, compute_config)
Create ==
    /\ pc = "create"
    /\ Call("create")
    /\ createCalls' = [createCalls EXCEPT ![cluster_name] = @ + 1]
    /\ \/ /\ clusters' = [clusters EXCEPT ![cluster_name] = CreateRequest]
          /\ createdOK' = [createdOK EXCEPT ![cluster_name] = @ + 1]
          /\ pc' = "wait_compute" /\ UNCHANGED failedAt
       \/ Raises("create") /\ UNCHANGED <<clusters, createdOK>>
    /\ UNCHANGED <<invocation, cluster_name, num_epochs, max_total_runs, found, best_run>>
    /\ UNCHANGED <<datastore, runState, hdState, hd_config, children, registry>>

\* compute_target.wait_for_completion(show_output=True)
WaitCompute ==
    /\ pc = "wait_compute"
    /\ clusters[cluster_name].state \in {"Succeeded", "Failed"}
    /\ Call("wait_compute")
    /\ \/ ~WaitRaises(clusters[cluster_name].state) /\ Returns("compute")
       \/ WaitRaises(clusters[cluster_name].state) /\ Raises("wait_compute")
    /\ UNCHANGED <<invocation, cluster_name, num_epochs, max_total_runs, found, best_run>>
    /\ UNCHANGED remote

\* run = experiment.submit(estimator)
SubmitRun ==
    /\ pc = "submit_run"
    /\ Call("submit_run")
    /\ \/ Returns("submit_run") /\ runState' = "Queued"
       \/ Raises("submit_run") /\ UNCHANGED runState
    /\ UNCHANGED <<invocation, cluster_name, num_epochs, max_total_runs, found, best_run>>
    /\ UNCHANGED <<clusters, datastore, hdState, hd_config, children,
                   registry, createCalls, createdOK>>

\* RunDetails(run).show(); print(run.get_details())
MonitorRun ==
    /\ pc = "monitor_run"
    /\ Call("monitor_run")
    /\ \/ Returns("monitor_run")
       \/ Raises("monitor_run")
    /\ UNCHANGED <<invocation, cluster_name, num_epochs, max_total_runs, found, best_run>>
    /\ UNCHANGED remote

\* A notebook without the wait cell: the run is left to itself.
WaitRunNoBlock ==
    /\ pc = "wait_run"
    /\ Call("wait_run")
    /\ Returns("wait_run")
    /\ UNCHANGED <<invocation, cluster_name, num_epochs, max_total_runs, found, best_run>>
    /\ UNCHANGED remote

\* run.wait_for_completion(show_output=True)
WaitRun ==
    /\ pc = "wait_run"
    /\ runState \in Terminal
    /\ Call("wait_run")
    /\ \/ ~WaitRaises(runState) /\ Returns("wait_run")
       \/ WaitRaises(runState) /\ Raises("wait_run")
    /\ UNCHANGED <<invocation, cluster_name, num_epochs, max_total_runs, found, best_run>>
    /\ UNCHANGED remote

\* hyperdrive_run = experiment.submit(hyperdrive_config)
SubmitSearch ==
    /\ pc = "submit_search"
    /\ Call("submit_search")
    /\ \/ /\ Returns("submit_search")
          /\ hdState' = "Queued"
          /\ hd_config' = hyperdrive_config(num_epochs, max_total_runs)
       \/ Raises("submit_search") /\ UNCHANGED <<hdState, hd_config>>
    /\ UNCHANGED <<invocation, cluster_name, num_epochs, max_total_runs, found, best_run>>
    /\ UNCHANGED <<clusters, datastore, runState, children,
                   registry, createCalls, createdOK>>

\* RunDetails(hyperdrive_run).show()
MonitorSearch ==
    /\ pc = "monitor_search"
    /\ Call("monitor_search")
    /\ \/ Returns("monitor_search")
       \/ Raises("monitor_search")
    /\ UNCHANGED <<invocation, cluster_name, num_epochs, max_total_runs, found, best_run>>
    /\ UNCHANGED remote

\* hyperdrive_run.wait_for_completion(show_output=True, wait_post_processing=True)
WaitSearch ==
    /\ pc = "wait_search"
    /\ hdState \in Terminal
    /\ Call("wait_search")
    /\ \/ ~WaitRaises(hdState) /\ Returns("wait_search")
       \/ WaitRaises(hdState) /\ Raises("wait_search")
    /\ UNCHANGED <<invocation, cluster_name, num_epochs, max_total_runs, found, best_run>>
    /\ UNCHANGED remote

\* The child runs that logged the primary metric.
Scored == {i \in 1..Len(children) : children[i].metric > 0}

\* Whether metric a is at least as good as metric b under the search's goal.
AsGoodAs(a, b) ==
    IF hd_config.primary_metric_goal = "MAXIMIZE" THEN a >= b ELSE a <= b

\* hyperdrive_run.get_best_run_by_primary_metric(): a child whose primary
\* metric is best under the configured goal; none when no child logged it.
BestRuns ==
    {i \in Scored : \A j \in Scored : AsGoodAs(children[i].metric, children[j].metric)}

\* best_run = hyperdrive_run.get_best_run_by_primary_metric()
\* best_run_metrics = best_run.get_metrics(); best_run.get_details()
BestRun ==
    /\ pc = "best_run"
    /\ Call("best_run")
    /\ \/ \E i \in BestRuns : best_run' = i /\ Returns("best_run")
       \/ BestRuns = {} /\ Raises("best_run") /\ UNCHANGED best_run
       \/ Raises("best_run") /\ UNCHANGED best_run
    /\ UNCHANGED <<invocation, cluster_name, num_epochs, max_total_runs, found>>
    /\ UNCHANGED remote

\* The version the registry gives the next model registered under `name`.
NextVersion(name) ==
    Cardinality({i \in 1..Len(registry) : registry[i].name = name}) + 1

\* The registry entry register_model makes of a run's output.
ModelOf(kind, index) ==
    [name |-> model_name, version |-> NextVersion(model_name),
     path |-> model_path, invocation |-> invocation,
     run |-> kind, child |-> index]

\* Registration that first clears the models already under the name.
RegisterReplacing ==
    /\ pc = "register"
    /\ Call("register")
    /\ Returns("register")
    /\ registry' = << [ModelOf("child", best_run)
                          EXCEPT !.version = Len(registry) + 1] >>
    /\ UNCHANGED <<invocation, cluster_name, num_epochs, max_total_runs, found, best_run>>
    /\ UNCHANGED <<clusters, datastore, runState, hdState, hd_config, children,
                   createCalls, createdOK>>

\* model = best_run.register_model(model_name="torchvision_best_model",
\*                                 model_path="/outputs/model_latest.pth")
RegisterModel ==
    /\ pc = "register"
    /\ Call("register")
    /\ \/ /\ Returns("register")
          /\ registry' = Append(registry,
                 ModelOf("child", best_run))
       \/ Raises("register") /\ UNCHANGED registry
    /\ UNCHANGED <<invocation, cluster_name, num_epochs, max_total_runs, found, best_run>>
    /\ UNCHANGED <<clusters, datastore, runState, hdState, hd_config, children,
                   createCalls, createdOK>>

\* The notebook is run again, top to bottom, in a fresh kernel: its variables
\* are gone, the workspace is as the last run left it.
Restart ==
    /\ pc \in {"done", "halted"}
    /\ invocation < MaxInvocations
    /\ invocation' = invocation + 1
    /\ pc' = Cells[1]
    /\ failedAt' = ""
    /\ trace' = <<>>
    /\ found' = "unknown"
    /\ best_run' = 0
    /\ runState' = "NotSubmitted"
    /\ hdState' = "NotSubmitted"
    /\ hd_config' = NoConfig
    /\ children' = <<>>
    /\ cluster_name' \in ClusterNames
    /\ num_epochs' \in EpochChoices
    /\ max_total_runs' = default_max_total_runs
    /\ UNCHANGED <<clusters, datastore, registry, createCalls, createdOK>>

\* ------------------------------------------------------------ the workspace

\* Provisioning of a cluster ends, well or badly.
Provision ==
    \E n \in ClusterNames :
        /\ clusters[n].state = "Creating"
        /\ \E s \in {"Succeeded", "Failed"} :
               clusters' = [clusters EXCEPT ![n].state = s]
        /\ UNCHANGED locals
        /\ UNCHANGED <<datastore, runState, hdState, hd_config, children,
                       registry, createCalls, createdOK>>

\* The single run: queued -> running -> completed / failed / canceled.
RunProgress ==
    /\ \/ runState = "Queued" /\ runState' = "Running"
       \/ runState = "Running" /\ runState' \in Terminal
    /\ UNCHANGED locals
    /\ UNCHANGED <<clusters, datastore, hdState, hd_config, children,
                   registry, createCalls, createdOK>>

Running == {i \in 1..Len(children) : children[i].state = "Running"}

\* The search leaves the queue.
SearchStart ==
    /\ hdState = "Queued"
    /\ hdState' = "Running"
    /\ UNCHANGED locals
    /\ UNCHANGED <<clusters, datastore, runState, hd_config, children,
                   registry, createCalls, createdOK>>

\* The search starts one more child while its limits allow.
StartChild ==
    /\ hdState = "Running"
    /\ Len(children) < hd_config.max_total_runs
    /\ Cardinality(Running) < hd_config.max_concurrent_runs
    /\ children' = Append(children,
           [state |-> "Running", metric |-> 0, args |-> ChildArguments(hd_config)])
    /\ UNCHANGED locals
    /\ UNCHANGED <<clusters, datastore, runState, hdState, hd_config,
                   registry, createCalls, createdOK>>

\* A child ends: completed with its metric logged, failed without one, or
\* canceled by the early-termination policy while behind a better child.
ChildEnds ==
    \E i \in Running :
        /\ \/ \E m \in 1..MaxMetric :
                 children' = [children EXCEPT ![i].state = "Completed", ![i].metric = m]
           \/ children' = [children EXCEPT ![i].state = "Failed"]
           \/ \E m \in 1..MaxMetric :
                 /\ \E j \in Scored : children[j].metric > m
                 /\ children' = [children EXCEPT ![i].state = "Canceled", ![i].metric = m]
        /\ UNCHANGED locals
        /\ UNCHANGED <<clusters, datastore, runState, hdState, hd_config,
                       registry, createCalls, createdOK>>

\* The search ends: completed once every run of its budget has ended, or
\* failed, its running children canceled.
SearchEnds ==
    /\ hdState = "Running"
    /\ \/ /\ Len(children) = hd_config.max_total_runs
          /\ Running = {}
          /\ hdState' = "Completed"
          /\ UNCHANGED children
       \/ /\ hdState' = "Failed"
          /\ children' = [i \in 1..Len(children) |->
                 IF children[i].state = "Running"
                 THEN [children[i] EXCEPT !.state = "Canceled"]
                 ELSE children[i]]
    /\ UNCHANGED locals
    /\ UNCHANGED <<clusters, datastore, runState, hd_config,
                   registry, createCalls, createdOK>>

\* ----------------------------------------------------------- specifications

Notebook ==
    \/ Auth \/ GetDatastore \/ UploadImages \/ UploadAnnotations
    \/ Lookup \/ Create \/ WaitCompute
    \/ SubmitRun \/ MonitorRun \/ WaitRun
    \/ SubmitSearch \/ MonitorSearch \/ WaitSearch
    \/ BestRun \/ RegisterModel

Workspace ==
    \/ Provision \/ RunProgress \/ SearchStart \/ StartChild \/ ChildEnds \/ SearchEnds

Next == Notebook \/ Workspace \/ Restart

NextSearch == Notebook \/ Workspace

\* Repeated runs of the notebook with the search size of its parameters cell.
Spec == Init /\ [][Next]_vars

\* One run of the notebook with a search of up to MaxTotalRuns children.
SpecSearch == InitSearch /\ [][NextSearch]_vars

\* ------------------------------------------------------------------ claims

\* Calls of `op` made so far in this run of the notebook.
Made(op) == CountOf(trace, op)

\* The compute cell has run to its end in this run of the notebook.
ComputeResolved ==
    /\ Made("compute") > 0
    /\ pc \notin {"create", "wait_compute"}
    /\ failedAt \notin {"compute", "create", "wait_compute"}

\* The registry entries made by this run of the notebook.
Mine == {i \in 1..Len(registry) : registry[i].invocation = invocation}

\* C1: the compute cell provisions exactly when the named cluster is absent.
\* A lookup that fails because the cluster does not exist is followed by one
\* create call asking for STANDARD_NC6 with at most 8 nodes, and the cell
\* returns only once provisioning has completed; a lookup that succeeds is
\* followed by no create call and no provisioning wait.
C1_ProvisionIffAbsent ==
    /\ found = "found" =>
          /\ clusters[cluster_name].state # "Absent"
          /\ Made("create") = 0
          /\ Made("wait_compute") = 0
    /\ Made("create") > 0 => found = "missing"
    /\ (found = "missing" /\ Made("create") = 0) =>
          clusters[cluster_name].state = "Absent"
    /\ (found = "missing" /\ (pc = "wait_compute" \/ Made("wait_compute") > 0)) =>
          /\ Made("create") = 1
          /\ clusters[cluster_name].vm_size = "STANDARD_NC6"
          /\ clusters[cluster_name].max_nodes = 8
    /\ (found = "missing" /\ ComputeResolved) =>
          /\ Made("create") = 1
          /\ Made("wait_compute") = 1
          /\ clusters[cluster_name].state \notin {"Absent", "Creating"}
          /\ clusters[cluster_name].vm_size = "STANDARD_NC6"
          /\ clusters[cluster_name].max_nodes = 8

\* The cluster was absent, was created and provisioned, and the notebook went on.
C1_Witness ==
    /\ pc = "submit_run"
    /\ found = "missing"
    /\ Made("create") = 1
    /\ clusters[cluster_name].state = "Succeeded"

\* C2: each remote operation has completed before the next one starts: the
\* search is submitted only after the single run is terminal, the best run is
\* looked up only after the search is terminal, a model is registered only
\* after the best run was looked up, provisioning is over before any job is
\* submitted, and the single run and the search are never both in progress.
C2_StepsBlock ==
    /\ Made("submit_search") > 0 => runState \in Terminal
    /\ Made("best_run") > 0 => hdState \in Terminal
    /\ Made("register") > 0 =>
          /\ Made("best_run") > 0
          /\ IndexOf(trace, "best_run") < IndexOf(trace, "register")
    /\ Made("submit_run") > 0 => clusters[cluster_name].state # "Creating"
    /\ ~(runState \in Active /\ hdState \in Active)

\* The search is running, the single run having completed.
C2_Witness ==
    /\ hdState = "Running"
    /\ runState = "Completed"
    /\ Running # {}

\* C3: a step that fails ends the run of the notebook: the failed call is the
\* last call made, it was made once, and the notebook stays halted, so no
\* later step has left a trace in the workspace; after a failed provisioning
\* no job or search is submitted and no model registered.
C3_FailureHalts ==
    /\ failedAt # "" =>
        /\ pc = "halted"
        /\ trace # <<>>
        /\ trace[Len(trace)] = failedAt
        /\ Made(failedAt) = 1
        /\ failedAt \in {"compute", "create", "wait_compute"} =>
              /\ runState = "NotSubmitted"
              /\ hdState = "NotSubmitted"
              /\ Mine = {}
        /\ failedAt \in {"submit_run", "monitor_run", "wait_run"} =>
              /\ hdState = "NotSubmitted"
              /\ Mine = {}
        /\ failedAt # "register" => Mine = {}
    /\ (found = "missing" /\ clusters[cluster_name].state = "Failed") =>
          /\ runState = "NotSubmitted"
          /\ hdState = "NotSubmitted"
          /\ Mine = {}

\* Provisioning failed and the notebook stopped there.
C3_Witness ==
    /\ failedAt = "wait_compute"
    /\ pc = "halted"
    /\ clusters[cluster_name].state = "Failed"

\* C4: a run of the notebook that finds the cluster absent, has
\* max_total_runs = 1 and meets no failure makes exactly one create call, one
\* upload of each of the two directories, one single-run submission, one
\* search submission carrying max_total_runs = 1, and one registration, under
\* the name "torchvision_best_model".
C4_EndToEnd ==
    (pc = "done" /\ found = "missing" /\ max_total_runs = 1) =>
        /\ Made("create") = 1
        /\ Made("upload_images") = 1
        /\ Made("upload_annotations") = 1
        /\ datastore = {"JPEGImages", "Annotations"}
        /\ Made("submit_run") = 1
        /\ Made("submit_search") = 1
        /\ hd_config.max_total_runs = 1
        /\ Made("register") = 1
        /\ Cardinality(Mine) = 1
        /\ \A i \in Mine : registry[i].name = "torchvision_best_model"

\* The first run of the notebook ended well, having created the cluster.
C4_Witness ==
    /\ pc = "done"
    /\ invocation = 1
    /\ found = "missing"
    /\ max_total_runs = 1
    /\ failedAt = ""

\* C5 as claimed: over all runs of the notebook at most one create call is made
\* for a cluster name, a cluster that exists is reused and never deleted.
C5_AtMostOneCreateCall ==
    \A n \in ClusterNames :
        /\ createCalls[n] <= 1
        /\ createdOK[n] > 0 => clusters[n].state # "Absent"
        /\ (found = "found" /\ cluster_name = n) => Made("create") = 0

\* C5 as amended: a create call is made only by a run of the notebook whose
\* lookup finds the name absent, so at most one per run; a create call that
\* fails leaves the name absent and a later run makes another; at most one
\* create call per name succeeds; a cluster that exists (created here or
\* found already there) is reused as it is and never deleted.
C5_CreateOnlyWhenAbsent ==
    \A n \in ClusterNames :
        /\ createdOK[n] <= 1
        /\ createCalls[n] <= invocation
        /\ createdOK[n] > 0 =>
              /\ clusters[n].state # "Absent"
              /\ clusters[n].vm_size = "STANDARD_NC6"
        /\ createdOK[n] = 0 => clusters[n] \in {Absent, Foreign}
        /\ (found = "found" /\ cluster_name = n) => Made("create") = 0
        /\ (Made("create") > 0 /\ cluster_name = n) =>
              createdOK[n] = (IF pc = "halted" /\ failedAt = "create" THEN 0 ELSE 1)

\* A create call failed, the notebook was run again and its create call
\* succeeded.
C5_Witness ==
    \E n \in ClusterNames :
        /\ createCalls[n] = 2
        /\ createdOK[n] = 1
        /\ clusters[n].state = "Succeeded"

\* C6: during the search at most 4 child runs are running at any time, and
\* the search starts at most max_total_runs child runs.
C6_SearchLimits ==
    /\ Cardinality(Running) <= 4
    /\ Len(children) <= max_total_runs

\* Four children are running, a fifth having been started after one ended.
C6_Witness ==
    /\ Cardinality(Running) = 4
    /\ Len(children) = 5
    /\ max_total_runs >= 5

\* C7: the run held by best_run, and the run any model of this run of the
\* notebook is registered from, is a child of the search, chosen once the
\* search had completed, whose mAP@IoU=0.50 is the greatest any child logged;
\* the model is registered as "torchvision_best_model".
C7_BestChildRegistered ==
    /\ best_run # 0 =>
          /\ hdState = "Completed"
          /\ hd_config.primary_metric_name = "mAP@IoU=0.50"
          /\ best_run \in 1..Len(children)
          /\ children[best_run].metric > 0
          /\ \A j \in 1..Len(children) :
                children[j].metric <= children[best_run].metric
    /\ \A i \in Mine :
          /\ registry[i].name = "torchvision_best_model"
          /\ registry[i].run = "child"
          /\ registry[i].child = best_run
          /\ registry[i].child \in 1..Len(children)
          /\ \A j \in 1..Len(children) :
                children[j].metric <= children[registry[i].child].metric

\* A model was registered from the better of two children that logged
\* different metrics.
C7_Witness ==
    /\ pc = "done"
    /\ Mine # {}
    /\ \E j \in 1..Len(children) :
          /\ children[j].metric > 0
          /\ children[j].metric < children[best_run].metric

\* C8: registrations under the name "torchvision_best_model" get distinct,
\* strictly increasing versions in the order they are made, and a registered
\* version is never changed or replaced by a later registration.
C8_VersionsIncrease ==
    /\ [](\A i, j \in 1..Len(registry) :
            (i < j /\ registry[i].name = registry[j].name) =>
                registry[i].version < registry[j].version)
    /\ [][\A i \in 1..Len(registry) :
            Len(registry') >= i /\ registry'[i] = registry[i]]_vars

\* Two runs of the notebook each registered a model.
C8_Witness ==
    /\ Len(registry) = 2
    /\ registry[1].name = "torchvision_best_model"
    /\ registry[2].name = "torchvision_best_model"
    /\ registry[1].invocation # registry[2].invocation
    /\ registry[1].version = 1
    /\ registry[2].version = 2

\* The nine parameters of the training script.
TemplateParams == {"data_path", "workers", "epochs", "box_nms_thresh", "box_score_thresh"}
SampledParams == {"learning_rate", "rpn_nms_thresh", "anchor_sizes", "anchor_aspect_ratios"}

\* C9: the search's job template has exactly the parameters data_path,
\* workers = 8, epochs = num_epochs, box_nms_thresh = 0.3 and
\* box_score_thresh = 0.10, the search space exactly learning_rate,
\* rpn_nms_thresh, anchor_sizes and anchor_aspect_ratios; the two sets are
\* disjoint and every child run gets each of the nine parameters exactly once.
C9_ParametersPartition ==
    hdState # "NotSubmitted" =>
        LET t == hd_config.script_params
            sp == hd_config.sampling
            tnames == {ParamName(t[i].key) : i \in 1..Len(t)}
            snames == {ParamName(sp[i].key) : i \in 1..Len(sp)}
            value(name) == t[IndexOf([i \in 1..Len(t) |-> ParamName(t[i].key)], name)].value
        IN  /\ Len(t) = 5 /\ tnames = TemplateParams
            /\ value("workers") = "8"
            /\ value("epochs") = ToString(num_epochs)
            /\ value("box_nms_thresh") = "0.3"
            /\ value("box_score_thresh") = "0.10"
            /\ Len(sp) = 4 /\ snames = SampledParams
            /\ tnames \cap snames = {}
            /\ \A c \in 1..Len(children) :
                  /\ Len(children[c].args) = 9
                  /\ \A name \in TemplateParams \cup SampledParams :
                        CountOf(children[c].args, name) = 1

\* A child run was started with its nine parameters.
C9_Witness ==
    /\ Len(children) > 0
    /\ Len(children[1].args) = 9
    /\ num_epochs = 10

\* The step of the workflow a call belongs to.
StepOf(op) ==
    CASE op = "auth" -> "auth"
      [] op \in {"compute", "create", "wait_compute"} -> "compute"
      [] op \in {"datastore", "upload_images", "upload_annotations"} -> "upload"
      [] op \in {"submit_run", "monitor_run", "wait_run"} -> "single"
      [] op \in {"submit_search", "monitor_search", "wait_search"} -> "search"
      [] OTHER -> "result"

\* The calls made so far follow the order `steps` of the workflow's steps.
FollowsOrder(steps) ==
    \A i, j \in 1..Len(trace) :
        i < j => IndexOf(steps, StepOf(trace[i])) <= IndexOf(steps, StepOf(trace[j]))

\* C10 as claimed: the steps run in the order workspace/auth, compute
\* provisioning, data upload, single job, search, best run and registration;
\* compute resolution has completed before the first upload begins.
C10_ComputeBeforeUpload ==
    /\ FollowsOrder(<<"auth", "compute", "upload", "single", "search", "result">>)
    /\ Made("upload_images") > 0 => ComputeResolved

\* C10 as amended: the steps run in the order workspace/auth, data upload,
\* compute provisioning, single job, search, best run and registration; both
\* uploads have completed before compute resolution begins, and registration
\* follows the best-run lookup.
C10_UploadBeforeCompute ==
    /\ FollowsOrder(<<"auth", "upload", "compute", "single", "search", "result">>)
    /\ Made("compute") > 0 =>
          /\ Made("upload_images") = 1
          /\ Made("upload_annotations") = 1
          /\ datastore = {"JPEGImages", "Annotations"}
    /\ Made("register") > 0 =>
          IndexOf(trace, "best_run") < IndexOf(trace, "register")

\* Every step has run, the cluster having been created on the way.
C10_Witness ==
    /\ pc = "done"
    /\ Len(trace) = 15
    /\ Made("create") = 1

====
